---- MODULE Spec2Model ----
(***************************************************************************)
(* Model of TPO.py: main() reads a case (leer_datos), closes the edge      *)
(* weights with floyd_warshall and searches the hub subsets with           *)
(* calcular_mejor_camino.  Weights and costs are naturals; float('inf')    *)
(* is the sentinel Inf with Python's arithmetic (inf + x = inf,            *)
(* inf < inf is false).  A dict is a sequence of <<key, value>> pairs in   *)
(* insertion order, which is the order Python iterates it in.  The case    *)
(* file is the input: edge lines over every ordered pair of nodes          *)
(* (self-loops included), hubs and package destinations over the nodes     *)
(* other than the depot, a capacity of at least 1.  An uncaught IndexError *)
(* ends the run in pc = "IndexError".                                      *)
(***************************************************************************)
EXTENDS Integers, Sequences, FiniteSets, TLC

\* ---------------------------------------------------------------- bounds
NumNodos == 3
MaxAristas == 2
MaxPeso == 2
MaxHubs == 2
MaxCostoHub == 1
MaxPaquetes == 3
MaxCapacidad == 2

\* ------------------------------------------------------------- constants
Inf == 1000000

Nodos == 0 .. (NumNodos - 1)

\* The depot id of the case; node ids are interchangeable, so one id is enough.
Depositos == {0}

\* Ids that may be hubs or destinations: every node but the depot.
Otros(dep) == Nodos \ {dep}

SeqsHasta(S, n) == UNION {[1 .. m -> S] : m \in 0 .. n}

\* -------------------------------------------------- float('inf') arithmetic
Suma(a, b) == IF a = Inf \/ b = Inf THEN Inf ELSE a + b

Menor(a, b) == a # Inf /\ (b = Inf \/ a < b)

Resta(a, b) == IF a = Inf THEN Inf ELSE a - b

\* ------------------------------------------------ dict (insertion-ordered)
\* A dict is a sequence of <<key, value>> in insertion order.
DictTiene(d, key) == \E p \in 1 .. Len(d) : d[p][1] = key

DictGet(d, key, defecto) == IF DictTiene(d, key) THEN d[CHOOSE p \in 1 .. Len(d) : d[p][1] = key][2] ELSE defecto

DictSet(d, key, val) == IF DictTiene(d, key) THEN [p \in 1 .. Len(d) |-> IF d[p][1] = key THEN <<key, val>> ELSE d[p]] ELSE Append(d, <<key, val>>)

\* ------------------------------------------------------------ leer_datos
\* One line of the ARISTAS section: datos['aristas'][edge] = peso, then the
\* mirror entry unless the reverse key is already present.
InsertarArista(ar, linea) ==
  LET u == linea[1]
      v == linea[2]
      peso == linea[3]
      ar1 == DictSet(ar, <<u, v>>, peso)
  IN IF ~DictTiene(ar1, <<v, u>>) THEN DictSet(ar1, <<v, u>>, peso) ELSE ar1

RECURSIVE LeerAristas(_, _, _)
LeerAristas(ar, ls, n) == IF n > Len(ls) THEN ar ELSE LeerAristas(InsertarArista(ar, ls[n]), ls, n + 1)

RECURSIVE LeerHubs(_, _, _)
LeerHubs(hs, ls, n) == IF n > Len(ls) THEN hs ELSE LeerHubs(DictSet(hs, ls[n][1], ls[n][2]), ls, n + 1)

\* -------------------------------------------------------- floyd_warshall
\* dist after the initialisation loops (before the k loop).
RECURSIVE CargarAristas(_, _, _)
CargarAristas(d, ar, n) ==
  IF n > Len(ar) THEN d
  ELSE LET u == ar[n][1][1]
           v == ar[n][1][2]
           peso == ar[n][2]
           d1 == [d EXCEPT ![u][v] = peso]
           d2 == [d1 EXCEPT ![v][u] = peso]
       IN CargarAristas(d2, ar, n + 1)

MatrizDirecta(ar) == CargarAristas([a \in Nodos |-> [b \in Nodos |-> IF a = b THEN 0 ELSE Inf]], ar, 1)

\* One evaluation of the innermost body, in place.
Relajar(d, k, a, b) == IF Menor(Suma(d[a][k], d[k][b]), d[a][b]) THEN [d EXCEPT ![a][b] = Suma(d[a][k], d[k][b])] ELSE d

\* The three nested loops, t counting the (k, i, j) triples in loop order.
RECURSIVE Cierre(_, _)
Cierre(d, t) ==
  IF t >= NumNodos * NumNodos * NumNodos THEN d
  ELSE LET nd == Relajar(d, t \div (NumNodos * NumNodos), (t \div NumNodos) % NumNodos, t % NumNodos)
       IN IF nd = d THEN Cierre(d, t + 1) ELSE Cierre(nd, t + 1)

\* ------------------------------------------------- calcular_mejor_camino
\* paquetes_por_destino: how many packages go to each destination, in order
\* of first appearance.
RECURSIVE AgruparPaquetes(_, _, _)
AgruparPaquetes(ppd, ps, n) == IF n > Len(ps) THEN ppd ELSE AgruparPaquetes(DictSet(ppd, ps[n], DictGet(ppd, ps[n], 0) + 1), ps, n + 1)

\* Bit j of i, the test (i >> j) & 1.
Bit(i, j) == (i \div (2 ^ j)) % 2

\* hubs_activos of iteration i: the hubs (in dict order) whose bit is set.
RECURSIVE HubsActivos(_, _, _)
HubsActivos(hs, i, j) == IF j >= Len(hs) THEN <<>> ELSE (IF Bit(i, j) = 1 THEN <<hs[j + 1][1]>> ELSE <<>>) \o HubsActivos(hs, i, j + 1)

\* costo_activacion of iteration i.
RECURSIVE CostoActivacion(_, _, _)
CostoActivacion(hs, i, j) == IF j >= Len(hs) THEN 0 ELSE (IF Bit(i, j) = 1 THEN hs[j + 1][2] ELSE 0) + CostoActivacion(hs, i, j + 1)

\* The trailing "if viaje_actual: viajes.append(viaje_actual)".
CerrarViajesSinGuarda(vs, viaje_actual) == Append(vs, viaje_actual)

CerrarViajes(vs, viaje_actual) == IF viaje_actual # <<>> THEN Append(vs, viaje_actual) ELSE vs

\* The loop that splits the destinations into trips.
RECURSIVE ArmarViajes(_, _, _, _, _, _)
ArmarViajes(ppd, cap, n, vs, viaje_actual, carga_actual) ==
  IF n > Len(ppd) THEN CerrarViajes(vs, viaje_actual)
  ELSE LET d == ppd[n][1]
           cant == ppd[n][2]
       IN IF carga_actual + cant > cap
          THEN ArmarViajes(ppd, cap, n + 1, Append(vs, viaje_actual), <<d>>, cant)
          ELSE ArmarViajes(ppd, cap, n + 1, vs, Append(viaje_actual, d), carga_actual + cant)

\* sum of matriz[viaje[k]][viaje[k + 1]] for k from position n on.
RECURSIVE DistanciaInterna(_, _, _)
DistanciaInterna(m, viaje, n) == IF n >= Len(viaje) THEN 0 ELSE Suma(m[viaje[n]][viaje[n + 1]], DistanciaInterna(m, viaje, n + 1))

\* distancia_viaje for one starting point (viaje is not empty).
DistanciaViaje(m, punto_inicio, viaje, dep) == Suma(Suma(m[punto_inicio][viaje[1]], DistanciaInterna(m, viaje, 1)), m[viaje[Len(viaje)]][dep])

\* The loop over [deposito] + hubs_activos: <<mejor_inicio, menor_distancia_viaje>>.
RECURSIVE ElegirInicio(_, _, _, _, _, _, _)
ElegirInicio(m, puntos, n, viaje, dep, mejor_inicio, menor) ==
  IF n > Len(puntos) THEN <<mejor_inicio, menor>>
  ELSE LET dv == DistanciaViaje(m, puntos[n], viaje, dep)
       IN IF Menor(dv, menor)
          THEN ElegirInicio(m, puntos, n + 1, viaje, dep, puntos[n], dv)
          ELSE ElegirInicio(m, puntos, n + 1, viaje, dep, mejor_inicio, menor)

\* The loop over viajes: <<distancia_total, ruta_total>>.
RECURSIVE RecorrerViajes(_, _, _, _, _, _, _)
RecorrerViajes(m, vs, n, activos, dep, distancia, ruta) ==
  IF n > Len(vs) THEN <<distancia, ruta>>
  ELSE LET ini == ElegirInicio(m, <<dep>> \o activos, 1, vs[n], dep, dep, Inf)
       IN RecorrerViajes(m, vs, n + 1, activos, dep, Suma(distancia, ini[2]), (Append(ruta, ini[1]) \o vs[n]) \o <<dep>>)

\* viaje[0] of an empty trip raises IndexError.
HayViajeVacio(vs) == \E n \in 1 .. Len(vs) : vs[n] = <<>>

\* The comparison that keeps the incumbent.
EsMejorLaxo(costo, mejor) == ~Menor(mejor, costo)

EsMejor(costo, mejor) == Menor(costo, mejor)

\* ----------------------------------------------------------------- state
VARIABLES pc, lineas, aristas, hubs, paquetes, deposito, capacidad, dist, paquetes_por_destino, iter, hubs_activos, costo_activacion, viajes, distancia_total, ruta_total, costo_total, mejor_costo, mejor_hubs, mejor_ruta, mejor_distancia, costo_solo_hubs

vars == <<pc, lineas, aristas, hubs, paquetes, deposito, capacidad, dist, paquetes_por_destino, iter, hubs_activos, costo_activacion, viajes, distancia_total, ruta_total, costo_total, mejor_costo, mejor_hubs, mejor_ruta, mejor_distancia, costo_solo_hubs>>

datos == <<lineas, aristas, hubs, paquetes, deposito, capacidad>>

locales == <<hubs_activos, costo_activacion, viajes, distancia_total, ruta_total, costo_total>>

mejores == <<mejor_costo, mejor_hubs, mejor_ruta, mejor_distancia>>

\* main() before leer_datos: nothing read, nothing computed.
Init ==
  /\ pc = "leer_datos"
  /\ lineas = <<>>
  /\ aristas = <<>>
  /\ hubs = <<>>
  /\ paquetes = <<>>
  /\ deposito = 0
  /\ capacidad = 1
  /\ dist = [a \in Nodos |-> [b \in Nodos |-> Inf]]
  /\ paquetes_por_destino = <<>>
  /\ iter = 0
  /\ hubs_activos = <<>>
  /\ costo_activacion = 0
  /\ viajes = <<>>
  /\ distancia_total = 0
  /\ ruta_total = <<>>
  /\ costo_total = 0
  /\ mejor_costo = Inf
  /\ mejor_hubs = <<>>
  /\ mejor_ruta = <<>>
  /\ mejor_distancia = 0
  /\ costo_solo_hubs = 0

\* leer_datos: the configuration and the HUBS, PAQUETES and ARISTAS sections
\* of the case file, whose content is the input.
LeerDatos ==
  /\ pc = "leer_datos"
  /\ \E dep \in Depositos, cap \in 1 .. MaxCapacidad :
       \E lh \in SeqsHasta(Otros(dep) \X (0 .. MaxCostoHub), MaxHubs), lp \in SeqsHasta(Otros(dep), MaxPaquetes), la \in SeqsHasta(Nodos \X Nodos \X (1 .. MaxPeso), MaxAristas) :
         /\ deposito' = dep
         /\ capacidad' = cap
         /\ hubs' = LeerHubs(<<>>, lh, 1)
         /\ paquetes' = lp
         /\ lineas' = la
         /\ aristas' = LeerAristas(<<>>, la, 1)
  /\ pc' = "fw_inicio"
  /\ UNCHANGED <<dist, paquetes_por_destino, iter, locales, mejores, costo_solo_hubs>>

\* floyd_warshall, the initialisation of dist from the edges.
FWInicio ==
  /\ pc = "fw_inicio"
  /\ dist' = MatrizDirecta(aristas)
  /\ pc' = "fw_cierre"
  /\ UNCHANGED <<datos, paquetes_por_destino, iter, locales, mejores, costo_solo_hubs>>

\* floyd_warshall, the k, i, j loops and the return to main.
FWCierre ==
  /\ pc = "fw_cierre"
  /\ dist' = Cierre(dist, 0)
  /\ pc' = "agrupar"
  /\ UNCHANGED <<datos, paquetes_por_destino, iter, locales, mejores, costo_solo_hubs>>

\* calcular_mejor_camino up to the subset loop.
Agrupar ==
  /\ pc = "agrupar"
  /\ paquetes_por_destino' = AgruparPaquetes(<<>>, paquetes, 1)
  /\ mejor_costo' = Inf
  /\ mejor_hubs' = <<>>
  /\ mejor_ruta' = <<>>
  /\ mejor_distancia' = 0
  /\ iter' = 0
  /\ pc' = "buscar"
  /\ UNCHANGED <<datos, dist, locales, costo_solo_hubs>>

\* One iteration of the subset loop whose first trip is empty: IndexError.
EvaluarFalla ==
  /\ pc = "buscar"
  /\ iter < 2 ^ Len(hubs)
  /\ LET vs == ArmarViajes(paquetes_por_destino, capacidad, 1, <<>>, <<>>, 0)
     IN /\ HayViajeVacio(vs)
        /\ hubs_activos' = HubsActivos(hubs, iter, 0)
        /\ costo_activacion' = CostoActivacion(hubs, iter, 0)
        /\ viajes' = vs
        /\ distancia_total' = 0
        /\ ruta_total' = <<deposito>>
  /\ pc' = "IndexError"
  /\ UNCHANGED <<datos, dist, paquetes_por_destino, iter, costo_total, mejores, costo_solo_hubs>>

\* One iteration of the subset loop that completes.
Evaluar ==
  /\ pc = "buscar"
  /\ iter < 2 ^ Len(hubs)
  /\ LET activos == HubsActivos(hubs, iter, 0)
         costo_act == CostoActivacion(hubs, iter, 0)
         vs == ArmarViajes(paquetes_por_destino, capacidad, 1, <<>>, <<>>, 0)
     IN /\ ~HayViajeVacio(vs)
        /\ LET rec == RecorrerViajes(dist, vs, 1, activos, deposito, 0, <<deposito>>)
               total == Suma(rec[1], costo_act)
           IN /\ hubs_activos' = activos
              /\ costo_activacion' = costo_act
              /\ viajes' = vs
              /\ distancia_total' = rec[1]
              /\ ruta_total' = rec[2]
              /\ costo_total' = total
              /\ IF EsMejor(total, mejor_costo)
                 THEN /\ mejor_costo' = total
                      /\ mejor_hubs' = activos
                      /\ mejor_ruta' = rec[2]
                      /\ mejor_distancia' = rec[1]
                 ELSE UNCHANGED mejores
  /\ iter' = iter + 1
  /\ UNCHANGED <<pc, datos, dist, paquetes_por_destino, costo_solo_hubs>>

\* After the loop: costo_solo_hubs and the return.
Retornar ==
  /\ pc = "buscar"
  /\ iter >= 2 ^ Len(hubs)
  /\ costo_solo_hubs' = Resta(mejor_costo, mejor_distancia)
  /\ pc' = "fin"
  /\ UNCHANGED <<datos, dist, paquetes_por_destino, iter, locales, mejores>>

Next == LeerDatos \/ FWInicio \/ FWCierre \/ Agrupar \/ EvaluarFalla \/ Evaluar \/ Retornar

Spec == Init /\ [][Next]_vars

\* ------------------------------------------------------------ properties
MinDe(S) == CHOOSE x \in S : \A y \in S : x <= y

\* One round of relaxation of every dict entry, taken as a directed edge.
RelajarAristas(D) == [a \in Nodos |-> [b \in Nodos |-> MinDe({D[a][b]} \cup {Suma(D[a][aristas[p][1][1]], aristas[p][2]) : p \in {q \in 1 .. Len(aristas) : aristas[q][1][2] = b}})]]

RECURSIVE Rondas(_, _)
Rondas(D, n) == IF n = 0 THEN D ELSE Rondas(RelajarAristas(D), n - 1)

\* Minimum total weight over all paths of the input graph (the empty path included).
CaminoMinimo == Rondas([a \in Nodos |-> [b \in Nodos |-> IF a = b THEN 0 ELSE Inf]], NumNodos)

\* C1: the matrix floyd_warshall returns holds, for every ordered pair, the
\* minimum total weight over all paths of the input graph (Inf when there is
\* none), and its diagonal is zero.
C1_DistEsCaminoMinimo == pc = "agrupar" => \A a \in Nodos : dist[a][a] = 0 /\ \A b \in Nodos : dist[a][b] = CaminoMinimo[a][b]

\* The edge list gives (u, v) in line p and (v, u) in line q, each once.
DaAmbosSentidos(p, q) ==
  /\ p # q
  /\ lineas[p][1] # lineas[p][2]
  /\ lineas[q][1] = lineas[p][2]
  /\ lineas[q][2] = lineas[p][1]
  /\ \A r \in 1 .. Len(lineas) : r \notin {p, q} => {lineas[r][1], lineas[r][2]} # {lineas[p][1], lineas[p][2]}

\* C2: when the edge list gives (u, v) with weight a and (v, u) with weight
\* b, in either order, the direct-weight matrix the solver starts from holds
\* a for u -> v and b for v -> u.
C2_PesoInversoSeConserva == pc = "fw_cierre" => \A p, q \in 1 .. Len(lineas) : DaAmbosSentidos(p, q) => dist[lineas[p][1]][lineas[p][2]] = lineas[p][3] /\ dist[lineas[q][1]][lineas[q][2]] = lineas[q][3]

EsRecarga(n) == n = deposito \/ \E p \in 1 .. Len(mejor_hubs) : mejor_hubs[p] = n

\* Walks the route from position n with the demand served since the last
\* recharge point; FALSE as soon as it exceeds the capacity.
RECURSIVE TramosAdmisibles(_, _, _)
TramosAdmisibles(ruta, n, carga) ==
  IF n > Len(ruta) THEN TRUE
  ELSE IF EsRecarga(ruta[n]) THEN TramosAdmisibles(ruta, n + 1, 0)
  ELSE LET c == carga + DictGet(paquetes_por_destino, ruta[n], 0)
       IN c <= capacidad /\ TramosAdmisibles(ruta, n + 1, c)

\* C3: in the returned route the demand served between two consecutive
\* recharge-point visits never exceeds the truck capacity.
C3_RutaRespetaCapacidad == pc = "fin" => TramosAdmisibles(mejor_ruta, 1, 0)

\* C4: every returned route is non-empty and starts and ends at the depot.
C4_RutaEmpiezaYTerminaEnDeposito == pc = "fin" => mejor_ruta # <<>> /\ mejor_ruta[1] = deposito /\ mejor_ruta[Len(mejor_ruta)] = deposito

RECURSIVE SumaCostos(_, _)
SumaCostos(hs, n) == IF n > Len(hs) THEN 0 ELSE DictGet(hubs, hs[n], 0) + SumaCostos(hs, n + 1)

\* C5: every evaluated subset has total = distance + activation cost, and
\* the returned figures agree: total = distance + hub cost, and hub cost =
\* sum of the activation costs of the returned hubs.
C5_CostosCoherentes ==
  /\ (pc = "buscar" /\ iter > 0) => costo_total = Suma(distancia_total, costo_activacion)
  /\ pc = "fin" => mejor_costo = Suma(mejor_distancia, costo_solo_hubs) /\ costo_solo_hubs = SumaCostos(mejor_hubs, 1)

\* Total cost of subset i, evaluated on its own.
CostoDe(i) == Suma(RecorrerViajes(dist, ArmarViajes(paquetes_por_destino, capacidad, 1, <<>>, <<>>, 0), 1, HubsActivos(hubs, i, 0), deposito, 0, <<deposito>>)[1], CostoActivacion(hubs, i, 0))

Indices == 0 .. (2 ^ Len(hubs) - 1)

\* The earliest-enumerated subset among those of minimum total cost.
IndiceMinimo == CHOOSE i \in Indices : \A j \in Indices : CostoDe(i) <= CostoDe(j) /\ (j < i => CostoDe(i) < CostoDe(j))

\* C6: the search returns the subset of minimum total cost over all
\* enumerated subsets, the earliest-enumerated one on a tie, with that cost.
C6_MinimoYPrimeroEnEmpate == pc = "fin" => mejor_hubs = HubsActivos(hubs, IndiceMinimo, 0) /\ mejor_costo = CostoDe(IndiceMinimo)

\* A finished search where a later subset ties with the winner, which is not
\* the empty subset, at a finite cost.
C6_Testigo == pc = "fin" /\ mejor_costo < Inf /\ IndiceMinimo > 0 /\ \E j \in Indices : j > IndiceMinimo /\ CostoDe(j) = mejor_costo

HayDestinoInalcanzable == \E p \in 1 .. Len(paquetes) : dist[deposito][paquetes[p]] = Inf

\* C7: with a destination unreachable from the depot, neither a finite total
\* cost nor a finite distance is returned, and the result differs from a
\* zero-cost solution.
C7_InalcanzableSinCifrasFinitas == (pc = "fin" /\ HayDestinoInalcanzable) => mejor_costo = Inf /\ mejor_distancia = Inf /\ mejor_costo # 0

\* C8: with zero packages the search completes and returns the depot-only
\* route, distance 0, activation cost 0, total 0 and no activated hub.
C8_SinPaquetes ==
  paquetes = <<>> =>
    /\ pc # "IndexError"
    /\ pc = "fin" => mejor_ruta = <<deposito>> /\ mejor_hubs = <<>> /\ mejor_costo = 0 /\ mejor_distancia = 0 /\ costo_solo_hubs = 0

\* A finished search with no package and at least one hub free to activate.
C8_Testigo == pc = "fin" /\ paquetes = <<>> /\ \E p \in 1 .. Len(hubs) : hubs[p][2] = 0

RECURSIVE SumaRuta(_, _)
SumaRuta(ruta, n) == IF n >= Len(ruta) THEN 0 ELSE Suma(dist[ruta[n]][ruta[n + 1]], SumaRuta(ruta, n + 1))

DistanciasFinitas == \A a, b \in Nodos : dist[a][b] # Inf

\* C9: with finite distances, the returned distance is the sum of the matrix
\* entries over the consecutive pairs of the returned route.
C9_DistanciaEsLaDeLaRuta == (pc = "fin" /\ DistanciasFinitas) => mejor_distancia = SumaRuta(mejor_ruta, 1)

\* C10: the split into trips yields only non-empty trips and the search
\* never stops on the first or last element of an empty trip.
C10_ViajesNoVacios == pc # "IndexError" /\ ~HayViajeVacio(viajes)

====
